---- MODULE Spec2Model ----
(***************************************************************************)
(* Model of the CS2 smoke simulator: the coordinate conversion of          *)
(* map_loader.py, the unit constants of physics_config.py and utils.py,    *)
(* EnhancedPhysicsEngine.simulate_throw of physics_engine.py, the grid     *)
(* search of smoke_finder.py and the request handlers of server.py.        *)
(*                                                                         *)
(* Python floats are modelled as exact rationals <<n, d>> (d > 0, lowest   *)
(* terms).  IEEE rounding (about 1e-16 relative) is far below every        *)
(* tolerance and threshold that appears in the program.                    *)
(***************************************************************************)
EXTENDS Integers, Sequences, FiniteSets, TLC

(***************************************************************************)
(* Rational arithmetic                                                     *)
(***************************************************************************)
RECURSIVE GCD(_, _)
GCD(a, b) == IF b = 0 THEN a ELSE GCD(b, a % b)

Abs(n) == IF n < 0 THEN -n ELSE n

Rat(n, d) ==
  LET g == GCD(Abs(n), Abs(d))
      s == IF d < 0 THEN -1 ELSE 1
  IN  <<(s * n) \div g, (s * d) \div g>>

R(k) == <<k, 1>>

RAdd(a, b) ==
  LET g == GCD(a[2], b[2])
  IN  Rat(a[1] * (b[2] \div g) + b[1] * (a[2] \div g), (a[2] \div g) * b[2])

RNeg(a) == <<-a[1], a[2]>>

RSub(a, b) == RAdd(a, RNeg(b))

RMul(a, b) ==
  LET g1 == GCD(Abs(a[1]), b[2])
      g2 == GCD(Abs(b[1]), a[2])
  IN  Rat((a[1] \div g1) * (b[1] \div g2), (a[2] \div g2) * (b[2] \div g1))

RDiv(a, b) == RMul(a, Rat(b[2], b[1]))

RAbs(a) == <<Abs(a[1]), a[2]>>

RLt(a, b) == a[1] * b[2] < b[1] * a[2]

RLe(a, b) == a[1] * b[2] <= b[1] * a[2]

\* floor of a rational
RFloor(a) == a[1] \div a[2]

\* Python int(): truncation toward zero
RTrunc(a) == IF a[1] >= 0 THEN a[1] \div a[2] ELSE -((-a[1]) \div a[2])

RECURSIVE ISqrtB(_, _, _)
ISqrtB(n, lo, hi) ==
  IF lo >= hi THEN lo
  ELSE LET mid == (lo + hi + 1) \div 2
       IN  IF mid * mid <= n THEN ISqrtB(n, mid, hi) ELSE ISqrtB(n, lo, mid - 1)

\* integer square root (floor)
ISqrt(n) == ISqrtB(n, 0, 46340)

(***************************************************************************)
(* Bounds of the model                                                     *)
(***************************************************************************)
\* longest simulated flight, in time steps
MaxSimSteps == 5
\* simulate_throw calls made by the direct caller in one behaviour
MaxCalls == 2
\* bounces the world resolves in one flight
MaxContacts == 1
\* np.linalg.norm of a velocity is resolved to 1/NormScale m/s
NormScale == 100
\* time steps of the long flight that reaches the early exit
LongSteps == 60
\* /find_smokes requests served in one behaviour
MaxRequests == 2
\* /health probes answered in one behaviour
MaxProbes == 2
\* requests inside simulate_throw at the same time
MaxThreads == 2
\* time steps of a simulate_throw call of a request thread
ThreadSteps == 1
\* candidates of the sweep that one search evaluates
MaxCandidates == 4

(***************************************************************************)
(* physics_config.py                                                       *)
(***************************************************************************)
ThrowTypes == {"LEFT_CLICK", "BOTH_CLICKS", "RIGHT_CLICK"}

gravity == 800

\* 1/120
time_step == Rat(1, 120)

\* 39.37
units_per_meter == Rat(3937, 100)

\* 0.0254
meters_per_unit == Rat(254, 10000)

grenade_restitution == Rat(45, 100)

throw_speeds ==
  [t \in ThrowTypes |->
     CASE t = "LEFT_CLICK" -> 1000
       [] t = "BOTH_CLICKS" -> 600
       [] t = "RIGHT_CLICK" -> 400]

get_throw_speed(throw_type) ==
  IF throw_type \in DOMAIN throw_speeds THEN throw_speeds[throw_type] ELSE 900

(***************************************************************************)
(* utils.py, CS2CoordinateConverter                                        *)
(***************************************************************************)
UNITS_PER_METER == Rat(3937, 100)

METERS_PER_UNIT == RDiv(R(1), UNITS_PER_METER)

meters_to_units(meters) == RMul(meters, UNITS_PER_METER)

units_to_meters(units) == RMul(units, METERS_PER_UNIT)

vector_meters_to_units(vector) ==
  [i \in DOMAIN vector |-> RMul(vector[i], UNITS_PER_METER)]

vector_units_to_meters(vector) ==
  [i \in DOMAIN vector |-> RMul(vector[i], METERS_PER_UNIT)]

(***************************************************************************)
(* map_loader.py, MapLoader                                                *)
(***************************************************************************)
\* the explicit check let a longer vector through
cs2_to_bullet_raises_TooShortOnly(position) == Len(position) < 3

\* lines 54-55: convert_cs2_to_bullet raises ValueError on this input
cs2_to_bullet_raises(position) == Len(position) # 3

\* line 70: x, y, z = position raises ValueError on this input
bullet_to_cs2_raises(position) == Len(position) # 3

\* CS2 (X east, Y north, Z up) -> PyBullet: scale, then swap Y and Z
\* (the value returned when the length check passes)
convert_cs2_to_bullet(position) ==
  LET scale == meters_per_unit
      x == position[1]
      y == position[2]
      z == position[3]
  IN  <<RMul(x, scale), RMul(z, scale), RMul(y, scale)>>

convert_bullet_to_cs2(position) ==
  LET scale == units_per_meter
      x == position[1]
      y == position[2]
      z == position[3]
  IN  <<RMul(x, scale), RMul(z, scale), RMul(y, scale)>>

(***************************************************************************)
(* Vectors of rationals                                                    *)
(***************************************************************************)
RVec(v) == [i \in DOMAIN v |-> R(v[i])]

ZeroVec == <<R(0), R(0), R(0)>>

VAdd(a, b) == [i \in DOMAIN a |-> RAdd(a[i], b[i])]

VScale(r, v) == [i \in DOMAIN v |-> RMul(r, v[i])]

\* np.linalg.norm of a velocity in m/s, resolved to 1/NormScale m/s
Norm(v) ==
  LET c(i) == Abs(RTrunc(RMul(v[i], R(NormScale))))
  IN  Rat(ISqrt(c(1) * c(1) + c(2) * c(2) + c(3) * c(3)), NormScale)

(***************************************************************************)
(* State                                                                   *)
(***************************************************************************)
VARIABLES
  \* the PyBullet world
  bodies,             \* ids of the dynamic bodies present in the world
  next_body_id,       \* id the next createMultiBody returns
  world_gravity,      \* vector last given to p.setGravity (sim frame)
  grenade_pos,        \* base position of body grenade_id (m, sim frame)
  grenade_vel,        \* linear velocity of body grenade_id (m/s, sim frame)
  grenade_rest,       \* the body lies at rest on geometry
  \* the running simulate_throw call
  pc,                 \* "idle", "loop", "final", "returned", "raised"
  args,               \* start_pos, pitch, yaw, throw_type, max_time
  grenade_id,
  num_steps,
  step,               \* loop variable; -1 while unbound
  iter,               \* index the for loop yields next
  bounces,
  last_velocity_mag,
  trajectory_cs2,
  info,
  exc,                \* class of the exception that ended the call
  \* observation of the call
  bodies_before,      \* number of dynamic bodies when the call began
  created,            \* bodies created by the call
  steps_run,          \* stepSimulation calls completed by the call
  contacts,           \* contacts resolved during the call
  speed_log,          \* current_velocity_mag of each completed iteration
  calls,              \* simulate_throw calls begun
  \* SmokeFinder.find_smokes
  sf_pc,              \* "idle", "searching", "done", "raised"
  sf_args,            \* target_pos, throw_type, strategy, max_results
  grid_args,          \* parameters of the running _grid_search frame
  sf_bodies_before,   \* bodies in the world when find_smokes was called
  sf_first,           \* the completed first search, kept for comparison
  throw_calls,        \* arguments of the simulate_throw calls of the sweep
  cand,               \* index of the next candidate of the sweep
  solutions,
  sf_result,
  outcomes,           \* outcome of simulate_throw for each candidate so far
  \* coordinate conversion
  cv_pc,              \* "in", "sim", "game", "raised"
  cv_exc,             \* class of the exception a conversion raised
  cv_in,
  cv_sim,
  cv_out,
  cv_units,           \* the same input through CS2CoordinateConverter
  \* server.py: module globals, requests in flight, health probes answered
  physics_engine,     \* 0 is None, else the number of the engine object
  smoke_finder,       \* 0 is None, else the engine the finder was built on
  engines_built,      \* engines constructed so far
  req_pc,             \* per request: "new", "check", "engine", "finder",
                      \* "try", "done"
  req_body,           \* per request: the body posted
  response,           \* per request: the answer sent
  health_log,         \* answers of the health probes, oldest first
  closed,             \* engines whose cleanup has disconnected their client
  \* simulate_throw calls of concurrently served requests on the one world
  sim_bodies,         \* live dynamic bodies -> world steps each went through
  sim_next_id,        \* id the next createMultiBody returns
  sim_foreign,        \* bodies advanced by a step of another call
  threads             \* per request thread: position in simulate_throw, locals

worldVars == <<bodies, next_body_id, world_gravity, grenade_pos, grenade_vel,
               grenade_rest>>

callVars == <<pc, args, grenade_id, num_steps, step, iter, bounces,
              last_velocity_mag, trajectory_cs2, info, exc, bodies_before,
              created, steps_run, contacts, speed_log, calls>>

searchVars == <<sf_pc, sf_args, grid_args, sf_bodies_before, sf_first,
                throw_calls, cand,
                solutions, sf_result, outcomes>>

convVars == <<cv_pc, cv_exc, cv_in, cv_sim, cv_out, cv_units>>

serverVars == <<physics_engine, smoke_finder, engines_built, req_pc, req_body,
                response, health_log, closed>>

threadVars == <<sim_bodies, sim_next_id, sim_foreign, threads>>

vars == <<worldVars, callVars, searchVars, convVars, serverVars, threadVars>>

(***************************************************************************)
(* Inputs of simulate_throw                                                *)
(***************************************************************************)
\* start positions in game units; the last two are not 3-vectors
StartPositions == {<<0, 0, 200>>, <<100, 50, 72>>, <<0, 0>>, <<0, 0, 200, 0>>}

PitchInputs == {0, 90}

YawInputs == {0, 90}

\* the last one is no member of ThrowType
ThrowTypeInputs == {"LEFT_CLICK", "RIGHT_CLICK", "UNKNOWN"}

\* time budgets: negative, zero, shorter than one step, the longest flight
MaxTimeInputs == {Rat(-1, 60), R(0), Rat(1, 240), Rat(MaxSimSteps, 120)}

ThrowArgs ==
  [start_pos : StartPositions, pitch : PitchInputs, yaw : YawInputs,
   throw_type : ThrowTypeInputs, max_time : MaxTimeInputs]

\* np.cos(np.radians(d)) and np.sin(np.radians(d)) on the angles used
\* (the float cosine of 90 degrees is 6e-17, taken as 0)
CosDeg(d) ==
  CASE d = 0 -> R(1) [] d = 90 -> R(0) [] d = 180 -> R(-1) [] d = -90 -> R(0)

SinDeg(d) ==
  CASE d = 0 -> R(0) [] d = 90 -> R(1) [] d = 180 -> R(0) [] d = -90 -> R(-1)

\* a direction conversion that also applies the position scale
DirectionBullet_Scaled(direction_cs2) ==
  <<RMul(direction_cs2[1], meters_per_unit),
    RMul(direction_cs2[3], meters_per_unit),
    RMul(direction_cs2[2], meters_per_unit)>>

\* lines 133-137: unit direction in game space from pitch and yaw
DirectionCs2(pitch, yaw) ==
  <<RMul(CosDeg(pitch), CosDeg(yaw)),
    RMul(CosDeg(pitch), SinDeg(yaw)),
    SinDeg(pitch)>>

\* lines 140-144: the direction in sim space (axis swap)
DirectionBullet(direction_cs2) ==
  <<direction_cs2[1], direction_cs2[3], direction_cs2[2]>>

NoArgs ==
  [start_pos |-> <<0, 0, 0>>, pitch |-> 0, yaw |-> 0,
   throw_type |-> "LEFT_CLICK", max_time |-> R(0)]

\* bodies of the test scene: the plane and four obstacles take ids 0..4
NumMapBodies == 5

NoInfo ==
  [final_position |-> ZeroVec, final_velocity |-> R(0), bounces |-> 0,
   simulation_time |-> R(0), trajectory_points |-> 0]

(***************************************************************************)
(* The PyBullet world (external library): one fixed time step.             *)
(* Free flight is the semi-implicit Euler step under the gravity vector    *)
(* set on the world; linear damping only shrinks the velocity along its    *)
(* own direction and is left out.  What the static geometry does to the    *)
(* body is not determined here: a step may resolve a contact, after which  *)
(* the body either rebounds or comes to rest and stays there.              *)
(***************************************************************************)
StepModes == {"flight", "bounce", "rest"}

StepEnabled(mode) ==
  IF grenade_rest THEN mode = "rest"
  ELSE mode = "bounce" => contacts < MaxContacts

stepSimulation(mode) ==
  LET g == RVec(world_gravity)
      v1 == VAdd(grenade_vel, VScale(time_step, g))
  IN  CASE mode = "flight" ->
             /\ grenade_vel' = v1
             /\ grenade_pos' = VAdd(grenade_pos, VScale(time_step, v1))
             /\ grenade_rest' = FALSE
             /\ contacts' = contacts
        [] mode = "bounce" ->
             /\ grenade_vel' = VScale(RNeg(grenade_restitution), grenade_vel)
             /\ grenade_pos' = grenade_pos
             /\ grenade_rest' = FALSE
             /\ contacts' = contacts + 1
        [] mode = "rest" ->
             /\ grenade_vel' = ZeroVec
             /\ grenade_pos' = grenade_pos
             /\ grenade_rest' = TRUE
             /\ contacts' = IF grenade_rest THEN contacts ELSE contacts + 1

(***************************************************************************)
(* physics_engine.py, EnhancedPhysicsEngine.simulate_throw                 *)
(***************************************************************************)
\* the call ends with an exception of class e
Raise(e) ==
  /\ pc' = "raised"
  /\ exc' = e

\* lines 125-188: conversion, direction, speed, body creation, loop setup.
\* fault names the PyBullet call that fails, if any.
SimulateThrowBegin(a, fault) ==
  /\ pc = "idle"
  /\ calls < MaxCalls
  /\ calls' = calls + 1
  /\ args' = a
  /\ bodies_before' = Cardinality(bodies)
  /\ steps_run' = 0
  /\ contacts' = 0
  /\ trajectory_cs2' = <<>>
  /\ info' = NoInfo
  /\ step' = -1
  /\ iter' = 0
  /\ bounces' = 0
  /\ UNCHANGED world_gravity
  /\ speed_log' = <<>>
  /\ IF cs2_to_bullet_raises(a.start_pos)
     THEN \* convert_cs2_to_bullet raises ValueError
          /\ fault = "none"
          /\ Raise("ValueError")
          /\ created' = 0
          /\ UNCHANGED <<bodies, next_body_id, grenade_pos, grenade_vel,
                         grenade_rest, grenade_id, num_steps,
                         last_velocity_mag>>
     ELSE LET start_bullet == convert_cs2_to_bullet(RVec(a.start_pos))
              direction_cs2 == DirectionCs2(a.pitch, a.yaw)
              direction_bullet == DirectionBullet(direction_cs2)
              speed_cs2 == get_throw_speed(a.throw_type)
              speed_bullet == RMul(R(speed_cs2), meters_per_unit)
              velocity_bullet == VScale(speed_bullet, direction_bullet)
          IN  CASE fault = "create" ->
                     \* createCollisionShape/createVisualShape/createMultiBody
                     /\ Raise("pybullet.error")
                     /\ created' = 0
                     /\ UNCHANGED <<bodies, next_body_id, grenade_pos,
                                    grenade_vel, grenade_rest, grenade_id,
                                    num_steps, last_velocity_mag>>
                [] fault = "setup" ->
                     \* changeDynamics/resetBaseVelocity on the new body
                     /\ Raise("pybullet.error")
                     /\ created' = 1
                     /\ bodies' = bodies \cup {next_body_id}
                     /\ grenade_id' = next_body_id
                     /\ next_body_id' = next_body_id + 1
                     /\ grenade_pos' = start_bullet
                     /\ grenade_vel' = ZeroVec
                     /\ grenade_rest' = FALSE
                     /\ UNCHANGED <<num_steps, last_velocity_mag>>
                [] fault = "none" ->
                     /\ created' = 1
                     /\ bodies' = bodies \cup {next_body_id}
                     /\ grenade_id' = next_body_id
                     /\ next_body_id' = next_body_id + 1
                     /\ grenade_pos' = start_bullet
                     /\ grenade_vel' = velocity_bullet
                     /\ grenade_rest' = FALSE
                     /\ num_steps' = RTrunc(RDiv(a.max_time, time_step))
                     /\ last_velocity_mag' = speed_bullet
                     /\ pc' = IF RTrunc(RDiv(a.max_time, time_step)) > 0
                              THEN "loop" ELSE "final"
                     /\ exc' = "none"
                [] OTHER -> FALSE
  /\ UNCHANGED <<searchVars, convVars, serverVars, threadVars>>

\* a bounce test that compares with 100 without converting the units
BounceDetected_Unconverted(current_velocity_mag, previous_velocity_mag) ==
  RLt(R(100), RAbs(RSub(current_velocity_mag, previous_velocity_mag)))

\* line 206: the speed changed by more than 100 game units/s in sim units
BounceDetected(current_velocity_mag, previous_velocity_mag) ==
  RLt(RMul(R(100), meters_per_unit),
      RAbs(RSub(current_velocity_mag, previous_velocity_mag)))

\* lines 190-213: one iteration of the for loop
SimulateThrowStep(mode, fault) ==
  /\ pc = "loop"
  /\ iter < num_steps
  /\ StepEnabled(mode)
  /\ step' = iter
  /\ iter' = iter + 1
  /\ UNCHANGED <<bodies, next_body_id, world_gravity, args, grenade_id,
                 num_steps, info, bodies_before, created, calls>>
  /\ CASE fault = "step" ->
            \* p.stepSimulation raises
            /\ Raise("pybullet.error")
            /\ UNCHANGED <<grenade_pos, grenade_vel, grenade_rest, contacts,
                           steps_run, trajectory_cs2, bounces,
                           last_velocity_mag, speed_log>>
       [] fault = "pos" ->
            \* p.getBasePositionAndOrientation raises
            /\ stepSimulation(mode)
            /\ steps_run' = steps_run + 1
            /\ Raise("pybullet.error")
            /\ UNCHANGED <<trajectory_cs2, bounces, last_velocity_mag,
                           speed_log>>
       [] fault = "vel" ->
            \* p.getBaseVelocity raises
            /\ stepSimulation(mode)
            /\ steps_run' = steps_run + 1
            /\ trajectory_cs2' =
                 Append(trajectory_cs2, convert_bullet_to_cs2(grenade_pos'))
            /\ Raise("pybullet.error")
            /\ UNCHANGED <<bounces, last_velocity_mag, speed_log>>
       [] fault = "none" ->
            /\ stepSimulation(mode)
            /\ steps_run' = steps_run + 1
            /\ trajectory_cs2' =
                 Append(trajectory_cs2, convert_bullet_to_cs2(grenade_pos'))
            /\ LET current_velocity_mag == Norm(grenade_vel')
               IN  /\ bounces' =
                        IF BounceDetected(current_velocity_mag,
                                          last_velocity_mag)
                        THEN bounces + 1 ELSE bounces
                   /\ last_velocity_mag' = current_velocity_mag
                   /\ speed_log' = Append(speed_log, current_velocity_mag)
                   /\ pc' =
                        IF \/ /\ RLt(current_velocity_mag,
                                     RMul(R(10), meters_per_unit))
                              /\ iter > 50
                           \/ iter + 1 >= num_steps
                        THEN "final" ELSE "loop"
            /\ exc' = "none"
       [] OTHER -> FALSE
  /\ UNCHANGED <<searchVars, convVars, serverVars, threadVars>>

\* lines 215-234: final queries, removeBody, info
SimulateThrowFinish(fault) ==
  /\ pc = "final"
  /\ UNCHANGED <<next_body_id, world_gravity, grenade_pos, grenade_vel,
                 grenade_rest, args, grenade_id, num_steps, step, iter,
                 bounces, last_velocity_mag, trajectory_cs2, bodies_before,
                 created, steps_run, contacts, speed_log, calls>>
  /\ CASE fault \in {"pos", "vel", "remove"} ->
            \* a final query, or removeBody itself, raises
            /\ Raise("pybullet.error")
            /\ UNCHANGED <<bodies, info>>
       [] fault = "none" ->
            LET final_pos_cs2 == convert_bullet_to_cs2(grenade_pos)
                final_speed_cs2 == RDiv(Norm(grenade_vel), meters_per_unit)
            IN  /\ bodies' = bodies \ {grenade_id}
                /\ IF step = -1
                   THEN \* step was never bound: line 230 raises
                        /\ Raise("UnboundLocalError")
                        /\ UNCHANGED info
                   ELSE /\ info' =
                             [final_position |-> final_pos_cs2,
                              final_velocity |-> final_speed_cs2,
                              bounces |-> bounces,
                              simulation_time |-> RMul(R(step), time_step),
                              trajectory_points |-> Len(trajectory_cs2)]
                        /\ pc' = "returned"
                        /\ exc' = "none"
       [] OTHER -> FALSE
  /\ UNCHANGED <<searchVars, convVars, serverVars, threadVars>>

\* the direct caller goes on after the call has ended: the frame is gone
CallerContinue ==
  /\ pc \in {"returned", "raised"}
  /\ calls < MaxCalls
  /\ pc' = "idle"
  /\ args' = NoArgs
  /\ grenade_id' = -1
  /\ num_steps' = 0
  /\ step' = -1
  /\ iter' = 0
  /\ bounces' = 0
  /\ last_velocity_mag' = R(0)
  /\ trajectory_cs2' = <<>>
  /\ info' = NoInfo
  /\ exc' = "none"
  /\ bodies_before' = 0
  /\ created' = 0
  /\ steps_run' = 0
  /\ contacts' = 0
  /\ speed_log' = <<>>
  /\ grenade_pos' = ZeroVec
  /\ grenade_vel' = ZeroVec
  /\ grenade_rest' = FALSE
  /\ UNCHANGED <<bodies, next_body_id, world_gravity, calls>>
  /\ UNCHANGED <<searchVars, convVars, serverVars, threadVars>>

\* lines 282-291: reset_simulation empties the world and sets gravity again
reset_simulation ==
  /\ pc = "idle"
  /\ bodies' = {}
  /\ world_gravity' = <<0, 0, -gravity>>
  /\ next_body_id' = NumMapBodies
  /\ UNCHANGED <<grenade_pos, grenade_vel, grenade_rest>>
  /\ UNCHANGED <<callVars, searchVars, convVars, serverVars, threadVars>>

(***************************************************************************)
(* Initial states                                                          *)
(***************************************************************************)
\* lines 32-47: state of the world after EnhancedPhysicsEngine.__init__
WorldInit ==
  /\ bodies = {}
  /\ next_body_id = NumMapBodies
  /\ world_gravity = <<0, 0, -gravity>>
  /\ grenade_pos = ZeroVec
  /\ grenade_vel = ZeroVec
  /\ grenade_rest = FALSE

CallInit ==
  /\ pc = "idle"
  /\ args = NoArgs
  /\ grenade_id = -1
  /\ num_steps = 0
  /\ step = -1
  /\ iter = 0
  /\ bounces = 0
  /\ last_velocity_mag = R(0)
  /\ trajectory_cs2 = <<>>
  /\ info = NoInfo
  /\ exc = "none"
  /\ bodies_before = 0
  /\ created = 0
  /\ steps_run = 0
  /\ contacts = 0
  /\ speed_log = <<>>
  /\ calls = 0

NoSearchArgs ==
  [target_pos |-> <<0, 0, 0>>, throw_type |-> "LEFT_CLICK",
   strategy |-> "GRID_SEARCH", max_results |-> 0]

NoGridArgs ==
  [target_pos |-> <<0, 0, 0>>, throw_type |-> "LEFT_CLICK", max_results |-> 0]

NoFirst ==
  [valid |-> FALSE, args |-> NoSearchArgs, bodies_before |-> {},
   outcomes |-> <<>>, result |-> <<>>]

SearchInit ==
  /\ sf_pc = "idle"
  /\ sf_args = NoSearchArgs
  /\ grid_args = NoGridArgs
  /\ sf_bodies_before = {}
  /\ sf_first = NoFirst
  /\ throw_calls = <<>>
  /\ cand = 1
  /\ solutions = <<>>
  /\ sf_result = <<>>
  /\ outcomes = <<>>

ConvIdle ==
  /\ cv_pc = "in"
  /\ cv_exc = "none"
  /\ cv_in = <<R(0), R(0), R(0)>>
  /\ cv_sim = ZeroVec
  /\ cv_out = ZeroVec
  /\ cv_units = ZeroVec

(***************************************************************************)
(* Spec: direct calls of simulate_throw on one engine                      *)
(***************************************************************************)
Requests == 1..MaxRequests

NoBody ==
  [json |-> FALSE, throw_type |-> "LEFT_CLICK", strategy |-> "GRID_SEARCH",
   max_results |-> 0]

NoResponse ==
  [status |-> 0, structured |-> FALSE, success |-> FALSE, error |-> "none",
   smokes |-> <<>>]

\* server.py lines 14-15: both globals start as None
ServerInit ==
  /\ physics_engine = 0
  /\ smoke_finder = 0
  /\ engines_built = 0
  /\ req_pc = [r \in Requests |-> "new"]
  /\ req_body = [r \in Requests |-> NoBody]
  /\ response = [r \in Requests |-> NoResponse]
  /\ health_log = <<>>
  /\ closed = {}

Threads == 1..MaxThreads

NoThread ==
  [pc |-> "idle", body |-> 0, iter |-> 0, frames |-> 0, last_frame |-> 0,
   last_speed |-> 0, final_position |-> 0, final_velocity |-> 0]

\* the shared world holds no grenade and no request is inside simulate_throw
ThreadInit ==
  /\ sim_bodies = [b \in {} |-> 0]
  /\ sim_next_id = 1
  /\ sim_foreign = {}
  /\ threads = [t \in Threads |-> NoThread]

Init ==
  /\ WorldInit /\ CallInit /\ SearchInit /\ ConvIdle /\ ServerInit
  /\ ThreadInit

Next ==
  \/ \E a \in ThrowArgs, fault \in {"none", "create", "setup"} :
       SimulateThrowBegin(a, fault)
  \/ \E mode \in StepModes, fault \in {"none", "step", "pos", "vel"} :
       SimulateThrowStep(mode, fault)
  \/ \E fault \in {"none", "pos", "vel", "remove"} :
       SimulateThrowFinish(fault)
  \/ CallerContinue
  \/ reset_simulation

Spec == Init /\ [][Next]_vars

(***************************************************************************)
(* smoke_finder.py, SmokeFinder                                            *)
(***************************************************************************)
Strategies == {"GRID_SEARCH", "GENETIC", "HYBRID"}

max_accuracy == 150

search_radius == 500

grid_step == 100

\* samples of np.linspace(-20, 60, 10)
PitchSamples == 10

Min(a, b) == IF a < b THEN a ELSE b

Max(a, b) == IF a > b THEN a ELSE b

\* a range that includes its upper end
ArangeCount_Inclusive == (2 * search_radius) \div grid_step + 1

\* number of values of np.arange(c - search_radius, c + search_radius, grid_step)
ArangeCount == (2 * search_radius + grid_step - 1) \div grid_step

\* k-th value (from 0) of np.linspace(-20, 60, 10)
Linspace(k) == RAdd(R(-20), Rat(80 * k, PitchSamples - 1))

\* the k-th candidate (from 1) of the nested sweep: x outer, y middle,
\* pitch inner
CandidateAt(target_pos, k) ==
  LET ip == (k - 1) % PitchSamples
      iy == ((k - 1) \div PitchSamples) % ArangeCount
      ix == (k - 1) \div (PitchSamples * ArangeCount)
      center == [target_pos EXCEPT ![3] = 72]
      x == center[1] - search_radius + ix * grid_step
      y == center[2] - search_radius + iy * grid_step
      throw_pos == <<x, y, center[3]>>
      delta == [i \in 1..3 |-> target_pos[i] - throw_pos[i]]
  IN  [throw_pos |-> throw_pos,
       pitch |-> Linspace(ip),
       \* np.degrees(np.arctan2(delta[1], delta[0])), kept as its arguments
       base_yaw |-> <<"atan2deg", delta[2], delta[1]>>,
       max_time |-> R(2)]

NumCandidates == Min(MaxCandidates, ArangeCount * ArangeCount * PitchSamples)

\* np.linalg.norm of a vector of whole game units (floor; exact on the
\* landing positions of the model)
NormInt(v) == ISqrt(v[1] * v[1] + v[2] * v[2] + v[3] * v[3])

VSubInt(a, b) == [i \in 1..3 |-> a[i] - b[i]]

\* trajectory[::10]
Decimate(trajectory) ==
  [i \in 1..((Len(trajectory) + 9) \div 10) |-> trajectory[10 * (i - 1) + 1]]

\* the filter with the boundary let in
Accept_Inclusive(accuracy) == accuracy <= max_accuracy

\* line 91: the accuracy filter
Accept(accuracy) == accuracy < max_accuracy

RECURSIVE InsertByAccuracy(_, _)
InsertByAccuracy(x, sorted) ==
  IF sorted = <<>> THEN <<x>>
  ELSE LET last == sorted[Len(sorted)]
       IN  IF last.accuracy <= x.accuracy THEN Append(sorted, x)
           ELSE Append(InsertByAccuracy(x, SubSeq(sorted, 1, Len(sorted) - 1)),
                       last)

RECURSIVE SortFrom(_, _, _)
SortFrom(s, k, sorted) ==
  IF k > Len(s) THEN sorted
  ELSE SortFrom(s, k + 1, InsertByAccuracy(s[k], sorted))

\* the accepted list left in sweep order
SortByAccuracy_Unsorted(s) == s

\* line 105: solutions.sort(key=lambda s: s.accuracy), a stable sort
SortByAccuracy(s) == SortFrom(s, 1, <<>>)

\* line 106: solutions[:max_results]
SlicePrefix(s, n) ==
  IF n >= 0 THEN SubSeq(s, 1, Min(n, Len(s)))
  ELSE SubSeq(s, 1, Max(Len(s) + n, 0))

(***************************************************************************)
(* What one simulate_throw call gives the searcher.  The landing point     *)
(* depends on the map geometry, so it is drawn from positions around the   *)
(* target (offsets of length 0, 100, 100 and 150); a call that raises may  *)
(* have left its body in the world (no removeBody on the exception path).  *)
(***************************************************************************)
LandingOffsets == {<<0, 0, 0>>, <<60, 80, 0>>, <<0, 0, 100>>, <<90, 120, 0>>}

ThrowOutcomes(target_pos) ==
  {[raised |-> TRUE, leaked |-> l, final_position |-> <<0, 0, 0>>,
    bounces |-> 0, trajectory |-> <<>>] : l \in BOOLEAN}
  \cup
  {[raised |-> FALSE, leaked |-> FALSE,
    final_position |-> [i \in 1..3 |-> target_pos[i] + o[i]],
    bounces |-> 0,
    trajectory |-> <<[i \in 1..3 |-> target_pos[i] + o[i]]>>] :
      o \in LandingOffsets}

TargetInputs == {<<500, 500, 50>>}

MaxResultsInputs == {-1, 0, 1, MaxCandidates}

\* the last one is no member of SearchStrategy
StrategyInputs == Strategies \cup {"UNKNOWN"}

SearchArgs ==
  [target_pos : TargetInputs, throw_type : {"LEFT_CLICK"},
   strategy : StrategyInputs, max_results : MaxResultsInputs]

\* line 76: the parameters _grid_search runs with
grid_search(target_pos, throw_type, max_results) ==
  [target_pos |-> target_pos, throw_type |-> throw_type,
   max_results |-> max_results]

\* a genetic search that caps the list by its own limit
genetic_search_OwnLimit(target_pos, throw_type, max_results) ==
  grid_search(target_pos, throw_type, 10)

\* lines 108-110: _genetic_search hands its parameters to _grid_search
genetic_search(target_pos, throw_type, max_results) ==
  grid_search(target_pos, throw_type, max_results)

\* lines 112-113: _hybrid_search hands its parameters to _grid_search
hybrid_search(target_pos, throw_type, max_results) ==
  grid_search(target_pos, throw_type, max_results)

\* lines 66-71: the branch find_smokes takes for a strategy
Dispatch(a) ==
  IF a.strategy = "GRID_SEARCH"
  THEN grid_search(a.target_pos, a.throw_type, a.max_results)
  ELSE IF a.strategy = "GENETIC"
       THEN genetic_search(a.target_pos, a.throw_type, a.max_results)
       ELSE hybrid_search(a.target_pos, a.throw_type, a.max_results)

\* lines 61-71 and 76-79: find_smokes dispatches on the strategy; each of
\* _grid_search, _genetic_search, _hybrid_search starts the grid sweep
FindSmokesBegin(a) ==
  /\ sf_pc = "idle"
  /\ sf_args' = a
  /\ grid_args' = Dispatch(a)
  /\ sf_bodies_before' = bodies
  /\ throw_calls' = <<>>
  /\ UNCHANGED sf_first
  /\ sf_pc' = "searching"
  /\ solutions' = <<>>
  /\ sf_result' = <<>>
  /\ outcomes' = <<>>
  /\ cand' = 1
  /\ UNCHANGED <<worldVars, callVars, convVars, serverVars, threadVars>>

\* the exception of a candidate let through to the caller of find_smokes
ExceptReraise ==
  /\ sf_pc' = "raised"
  /\ solutions' = solutions

\* lines 102-103: except: pass
ExceptPass ==
  /\ sf_pc' = "searching"
  /\ solutions' = solutions

\* all candidates of the sweep with the default radius and step
FullCandidates == ArangeCount * ArangeCount * PitchSamples

\* lines 83-103: one candidate of a sweep of limit candidates; o is what
\* simulate_throw does
SweepCandidate(o, limit) ==
  /\ sf_pc = "searching"
  /\ cand <= limit
  /\ LET c == CandidateAt(grid_args.target_pos, cand)
     IN  /\ throw_calls' =
              Append(throw_calls,
                     [start_pos |-> c.throw_pos, pitch |-> c.pitch,
                      yaw |-> c.base_yaw, throw_type |-> grid_args.throw_type,
                      max_time |-> c.max_time])
         /\ IF o.raised
             THEN ExceptPass
             ELSE LET accuracy ==
                        NormInt(VSubInt(o.final_position, grid_args.target_pos))
                  IN  /\ sf_pc' = "searching"
                      /\ solutions' =
                           IF Accept(accuracy)
                           THEN Append(solutions,
                                  [throw_position |-> c.throw_pos,
                                   angles |-> [pitch |-> c.pitch,
                                               yaw |-> c.base_yaw],
                                   throw_type |-> grid_args.throw_type,
                                   target_position |-> grid_args.target_pos,
                                   landing_position |-> o.final_position,
                                   accuracy |-> accuracy,
                                   trajectory |-> Decimate(o.trajectory),
                                   bounces |-> o.bounces])
                           ELSE solutions
  /\ outcomes' = Append(outcomes, o)
  /\ cand' = cand + 1
  /\ bodies' = IF o.leaked THEN bodies \cup {next_body_id} ELSE bodies
  /\ next_body_id' =
       IF o.raised /\ ~o.leaked THEN next_body_id ELSE next_body_id + 1
  /\ UNCHANGED <<world_gravity, grenade_pos, grenade_vel, grenade_rest>>
  /\ UNCHANGED <<sf_args, grid_args, sf_bodies_before, sf_first, sf_result,
                 callVars, convVars, serverVars, threadVars>>

\* the sweep bounded to its first NumCandidates candidates
GridCandidate(o) == SweepCandidate(o, NumCandidates)

\* lines 105-106 and 73-74: sort, slice, return
SweepFinish(limit) ==
  /\ sf_pc = "searching"
  /\ cand > limit
  /\ solutions' = SortByAccuracy(solutions)
  /\ sf_result' = SlicePrefix(SortByAccuracy(solutions), grid_args.max_results)
  /\ sf_pc' = "done"
  /\ UNCHANGED <<sf_args, grid_args, sf_bodies_before, sf_first,
                 throw_calls, cand, outcomes, worldVars, callVars, convVars,
                 serverVars, threadVars>>

GridFinish == SweepFinish(NumCandidates)

SearchNext ==
  \/ \E a \in SearchArgs : FindSmokesBegin(a)
  \/ \E o \in ThrowOutcomes(sf_args.target_pos) : GridCandidate(o)
  \/ GridFinish

SpecSearch == Init /\ [][SearchNext]_vars

(***************************************************************************)
(* Coordinate conversion as a pure function                                *)
(***************************************************************************)
ConvInputs == {R(-1000), R(-1), R(0), R(72), R(500)}

ConvInit ==
  /\ WorldInit /\ CallInit /\ SearchInit /\ ServerInit /\ ThreadInit
  /\ cv_pc = "in"
  /\ cv_exc = "none"
  /\ cv_in \in {<<x, y, z>> : x \in ConvInputs, y \in ConvInputs,
                              z \in ConvInputs}
  /\ cv_sim = ZeroVec
  /\ cv_out = ZeroVec
  /\ cv_units = ZeroVec

\* game -> sim through MapLoader and through CS2CoordinateConverter
ToSim ==
  /\ cv_pc = "in"
  /\ IF cs2_to_bullet_raises(cv_in)
     THEN /\ cv_pc' = "raised"
          /\ cv_exc' = "ValueError"
          /\ UNCHANGED <<cv_sim, cv_units>>
     ELSE /\ cv_sim' = convert_cs2_to_bullet(cv_in)
          /\ cv_units' = vector_units_to_meters(cv_in)
          /\ cv_pc' = "sim"
          /\ UNCHANGED cv_exc
  /\ UNCHANGED <<cv_in, cv_out, worldVars, callVars, searchVars, serverVars,
                 threadVars>>

\* sim -> game through MapLoader
ToGame ==
  /\ cv_pc = "sim"
  /\ cv_out' = convert_bullet_to_cs2(cv_sim)
  /\ cv_pc' = "game"
  /\ UNCHANGED <<cv_exc, cv_in, cv_sim, cv_units, worldVars, callVars,
                 searchVars, serverVars, threadVars>>

ConvNext == ToSim \/ ToGame

SpecConv == ConvInit /\ [][ConvNext]_vars

(***************************************************************************)
(* Properties of simulate_throw (specification Spec)                       *)
(***************************************************************************)
CallEnded == pc \in {"returned", "raised"}

\* C1: when a simulate_throw call that created its grenade body ends,
\* by return or by exception, the world holds as many dynamic bodies as
\* before the call.
C1_NoLeakedBody ==
  (CallEnded /\ created > 0) => Cardinality(bodies) = bodies_before

InvalidInputErrors == {"ValueError"}

\* C2: a simulate_throw call with max_time <= 0 creates no body, runs no
\* step and ends with an InvalidInput error.
C2_NonPositiveTimeRejected ==
  (pc # "idle" /\ Len(args.start_pos) = 3 /\ RLe(args.max_time, R(0))) =>
     /\ created = 0
     /\ steps_run = 0
     /\ pc = "raised"
     /\ exc \in InvalidInputErrors

UnitVec(k) == [i \in 1..3 |-> IF i = k THEN R(1) ELSE R(0)]

\* the sim axis that convert_bullet_to_cs2 maps to game Z (up)
UpAxisSim == CHOOSE k \in 1..3 : convert_bullet_to_cs2(UnitVec(k))[3] # R(0)

\* C9: the gravity vector set on the world points along the negative up
\* axis of the converter's sim frame with magnitude gravity * meters_per_unit.
C9_GravityDownInSimFrame ==
  RVec(world_gravity) =
    [i \in 1..3 |-> IF i = UpAxisSim
                    THEN RNeg(RMul(R(gravity), meters_per_unit))
                    ELSE R(0)]

\* a tenth of a game unit
VerticalEps == Rat(1, 10)

\* C10: in a throw with pitch 90 and yaw 0 from (0,0,200), every trajectory
\* sample taken before any contact has game x and y within VerticalEps of
\* the start's x and y.
C10_VerticalThrowStaysVertical ==
  (/\ pc # "idle"
   /\ args.start_pos = <<0, 0, 200>>
   /\ args.pitch = 90
   /\ args.yaw = 0
   /\ contacts = 0) =>
     \A k \in 1..Len(trajectory_cs2) :
       /\ RLe(RAbs(RSub(trajectory_cs2[k][1], R(args.start_pos[1]))),
              VerticalEps)
       /\ RLe(RAbs(RSub(trajectory_cs2[k][2], R(args.start_pos[2]))),
              VerticalEps)

(***************************************************************************)
(* Properties of find_smokes (specification SpecSearch)                    *)
(***************************************************************************)
\* distance between the landing point of candidate i and the target
Distance(i) ==
  NormInt(VSubInt(outcomes[i].final_position, sf_args.target_pos))

\* candidates evaluated so far whose simulation returned and landed
\* strictly closer than 150 units
PassIdx ==
  {i \in 1..Len(outcomes) : ~outcomes[i].raised /\ Distance(i) < 150}

\* solution r was built from candidate i
IsOf(r, i) ==
  LET c == CandidateAt(sf_args.target_pos, i)
  IN  /\ r.throw_position = c.throw_pos
      /\ r.angles.pitch = c.pitch
      /\ r.landing_position = outcomes[i].final_position

\* C3: whatever candidates raise, find_smokes returns normally, has
\* evaluated every candidate, and its result holds only passing candidates,
\* each once, and all of them when max_results allows.
C3_FailureNeverAborts ==
  /\ sf_pc # "raised"
  /\ sf_pc = "done" =>
       /\ Len(outcomes) = NumCandidates
       /\ \A k \in 1..Len(sf_result) : \E i \in PassIdx : IsOf(sf_result[k], i)
       /\ \A k, l \in 1..Len(sf_result) :
            k # l => sf_result[k].angles.pitch # sf_result[l].angles.pitch
       /\ sf_args.max_results >= Cardinality(PassIdx) =>
            \A i \in PassIdx :
              \E k \in 1..Len(sf_result) : IsOf(sf_result[k], i)

C3_Witness ==
  /\ sf_pc = "done"
  /\ Len(sf_result) >= 2
  /\ \E i, j \in 1..Len(outcomes) :
       /\ i < j
       /\ outcomes[i].raised
       /\ j \in PassIdx
       /\ \E k \in 1..Len(sf_result) : IsOf(sf_result[k], j)

\* C4: the returned sequence has at most max(max_results, 0) entries.
C4_AtMostMaxResults ==
  sf_pc = "done" => Len(sf_result) <= Max(sf_args.max_results, 0)

\* C5: the returned sequence is ascending in accuracy, and a passing
\* candidate that is not returned is no more accurate than any returned one.
C5_SortedBestFirst ==
  sf_pc = "done" =>
    /\ \A k, l \in 1..Len(sf_result) :
         k < l => sf_result[k].accuracy <= sf_result[l].accuracy
    /\ \A i \in PassIdx :
         \/ \E k \in 1..Len(sf_result) : IsOf(sf_result[k], i)
         \/ \A k \in 1..Len(sf_result) : sf_result[k].accuracy <= Distance(i)

C5_Witness ==
  /\ sf_pc = "done"
  /\ Len(sf_result) >= 2
  /\ sf_result[1].accuracy < sf_result[2].accuracy
  /\ \E i, j \in PassIdx : i < j /\ Distance(i) > Distance(j)
  /\ \E i \in PassIdx : \A k \in 1..Len(sf_result) : ~IsOf(sf_result[k], i)

\* C6: a candidate is among the accepted solutions exactly when its
\* simulation returned and landed strictly closer than 150 units to the
\* target; every solution has accuracy < 150, equal to the distance between
\* its landing_position and its target_position.
C6_AcceptedIffBelowThreshold ==
  /\ \A i \in 1..Len(outcomes) :
       (\E k \in 1..Len(solutions) : IsOf(solutions[k], i))
         <=> (~outcomes[i].raised /\ Distance(i) < 150)
  /\ \A k \in 1..Len(solutions) :
       /\ solutions[k].accuracy < 150
       /\ solutions[k].accuracy =
            NormInt(VSubInt(solutions[k].landing_position,
                            solutions[k].target_position))
  /\ \A k \in 1..Len(sf_result) :
       /\ sf_result[k].accuracy < 150
       /\ sf_result[k].target_position = sf_args.target_pos
       /\ sf_result[k].accuracy =
            NormInt(VSubInt(sf_result[k].landing_position,
                            sf_result[k].target_position))

C6_Witness ==
  /\ sf_pc = "done"
  /\ Len(sf_result) >= 1
  /\ \E i \in 1..Len(outcomes) : ~outcomes[i].raised /\ Distance(i) = 150
  /\ \E i \in 1..Len(outcomes) : outcomes[i].raised

(***************************************************************************)
(* Properties of the conversion (specification SpecConv)                   *)
(***************************************************************************)
RelTol == Rat(1, 1000000)

\* C7: convert_bullet_to_cs2(convert_cs2_to_bullet(v)) equals v in every
\* component within a relative tolerance of 1e-6.
C7_RoundTripWithinTolerance ==
  cv_pc = "game" =>
    \A i \in 1..3 :
      RLe(RAbs(RSub(cv_out[i], cv_in[i])), RMul(RelTol, RAbs(cv_in[i])))

\* C8: one units-per-meter value serves every conversion: each
\* meters-per-unit constant is the reciprocal of it, and MapLoader and
\* CS2CoordinateConverter convert the same game vector to the same meters.
C8_SingleConversionFactor ==
  /\ UNITS_PER_METER = units_per_meter
  /\ RMul(meters_per_unit, units_per_meter) = R(1)
  /\ METERS_PER_UNIT = meters_per_unit
  /\ cv_pc # "in" =>
       cv_sim = <<cv_units[1], cv_units[3], cv_units[2]>>


(***************************************************************************)
(* Input validation: conversions and simulate_throw on one drawn vector    *)
(***************************************************************************)
\* vectors handed to the conversions and to simulate_throw, of length 2, 3, 4
InputPositions == StartPositions

InputInit ==
  /\ WorldInit /\ CallInit /\ SearchInit /\ ServerInit /\ ThreadInit
  /\ cv_pc = "in"
  /\ cv_exc = "none"
  /\ cv_in \in {RVec(v) : v \in InputPositions}
  /\ cv_sim = ZeroVec
  /\ cv_out = ZeroVec
  /\ cv_units = ZeroVec

\* map_loader.py lines 66-75 applied to the drawn vector
ToGameDirect ==
  /\ cv_pc = "in"
  /\ IF bullet_to_cs2_raises(cv_in)
     THEN /\ cv_pc' = "raised"
          /\ cv_exc' = "ValueError"
          /\ UNCHANGED cv_out
     ELSE /\ cv_out' = convert_bullet_to_cs2(cv_in)
          /\ cv_pc' = "game"
          /\ UNCHANGED cv_exc
  /\ UNCHANGED <<cv_in, cv_sim, cv_units, worldVars, callVars, searchVars,
                 serverVars, threadVars>>

\* simulate_throw started from the drawn vector, no PyBullet failure
ThrowFromInput ==
  \E a \in ThrowArgs :
    /\ RVec(a.start_pos) = cv_in
    /\ SimulateThrowBegin(a, "none")

InputNext ==
  \/ ToSim
  \/ ToGame
  \/ ToGameDirect
  \/ ThrowFromInput
  \/ \E mode \in StepModes : SimulateThrowStep(mode, "none")
  \/ SimulateThrowFinish("none")
  \/ CallerContinue

SpecInput == InputInit /\ [][InputNext]_vars

\* C11: a vector whose length is not 3 is rejected by both conversions with
\* an invalid-input error, and simulate_throw given such a start position
\* raises that error before a body is created or a step is run.
C11_WrongLengthRejected ==
  /\ cv_pc = "raised" => cv_exc \in InvalidInputErrors
  /\ Len(cv_in) # 3 => cv_pc \in {"in", "raised"}
  /\ (pc # "idle" /\ Len(args.start_pos) # 3) =>
       /\ pc = "raised"
       /\ exc \in InvalidInputErrors
       /\ created = 0
       /\ steps_run = 0
       /\ Cardinality(bodies) = bodies_before

C11_Witness ==
  /\ cv_pc = "raised"
  /\ Len(cv_in) = 4
  /\ pc = "raised"
  /\ Len(args.start_pos) = 4

\* squared Euclidean length of a vector of rationals
SqNorm(v) ==
  RAdd(RAdd(RMul(v[1], v[1]), RMul(v[2], v[2])), RMul(v[3], v[3]))

\* the call got past body creation and velocity setup, no step run yet
JustThrown ==
  /\ pc \in {"loop", "final"}
  /\ steps_run = 0
  /\ created = 1

\* C12 as stated: the sim-space direction of a unit direction d has
\* magnitude |d| x scale (scale = meters per game unit).
C12_DirectionScaledMagnitude ==
  JustThrown =>
    LET d == DirectionCs2(args.pitch, args.yaw)
    IN  SqNorm(DirectionBullet(d)) =
          RMul(SqNorm(d), RMul(meters_per_unit, meters_per_unit))

\* C12 amended: the sim-space direction of a unit direction d has magnitude
\* |d| (axis swap, no scale); the scale is applied to the speed, so the
\* velocity handed to the world has magnitude speed x scale.
C12_DirectionKeepsMagnitude ==
  JustThrown =>
    LET d == DirectionCs2(args.pitch, args.yaw)
        speed_bullet ==
          RMul(R(get_throw_speed(args.throw_type)), meters_per_unit)
    IN  /\ SqNorm(d) = R(1)
        /\ SqNorm(DirectionBullet(d)) = SqNorm(d)
        /\ SqNorm(grenade_vel) = RMul(speed_bullet, speed_bullet)

C12_Witness ==
  /\ JustThrown
  /\ args.pitch = 90
  /\ args.throw_type = "LEFT_CLICK"
  /\ grenade_vel = <<R(0), Rat(254, 10), R(0)>>

\* C17: whatever the strategy, the grid routine runs with the target, throw
\* type and max_results given to find_smokes (what GRID_SEARCH runs with),
\* and the sequence returned is the sorted sweep cut by that max_results;
\* the sweep depends on nothing else, so the three strategies agree.
C17_StrategiesRunSameGrid ==
  /\ sf_pc # "idle" =>
       grid_args = grid_search(sf_args.target_pos, sf_args.throw_type,
                               sf_args.max_results)
  /\ sf_pc = "done" =>
       /\ sf_result = SlicePrefix(solutions, sf_args.max_results)
       /\ \A i \in 1..Len(sf_result) :
            /\ sf_result[i].target_position = sf_args.target_pos
            /\ sf_result[i].throw_type = sf_args.throw_type

C17_Witness ==
  /\ sf_pc = "done"
  /\ sf_args.strategy = "GENETIC"
  /\ sf_args.max_results = 1
  /\ Len(solutions) >= 2
  /\ Len(sf_result) = 1

\* C14: an unknown enum value is rejected as invalid input before any
\* simulation work: simulate_throw with a throw type outside the speed table
\* and find_smokes with a strategy outside SearchStrategy both raise without
\* creating a body or running a step or a candidate.
C14_UnknownEnumRejected ==
  /\ (pc # "idle" /\ args.throw_type \notin ThrowTypes) =>
       /\ pc = "raised"
       /\ exc \in InvalidInputErrors
       /\ created = 0
       /\ steps_run = 0
  /\ (sf_pc # "idle" /\ sf_args.strategy \notin Strategies) =>
       /\ sf_pc = "raised"
       /\ outcomes = <<>>

\* C19: in every simulate_throw that returns, simulation_time is the number
\* of steps run times the time step, and the number of steps run is the
\* reported trajectory_points.
C19_TimeIsStepsTimesTimeStep ==
  pc = "returned" =>
    /\ steps_run = info.trajectory_points
    /\ info.simulation_time = RMul(R(steps_run), time_step)
    /\ info.simulation_time = RMul(R(info.trajectory_points), time_step)

(***************************************************************************)
(* SpecLong: one flight long enough to reach the early exit of the loop    *)
(***************************************************************************)
LongArgs ==
  [start_pos |-> <<0, 0, 200>>, pitch |-> 0, yaw |-> 0,
   throw_type |-> "LEFT_CLICK", max_time |-> Rat(LongSteps, 120)]

\* the body flies, or has come to rest on the ground
LongModes == {"flight", "rest"}

LongNext ==
  \/ SimulateThrowBegin(LongArgs, "none")
  \/ \E mode \in LongModes : SimulateThrowStep(mode, "none")
  \/ SimulateThrowFinish("none")

SpecLong == Init /\ [][LongNext]_vars

\* line 212: 10 game units/s in sim units
StopThreshold == RMul(R(10), meters_per_unit)

\* the speed after the k-th step run was below the stop threshold
BelowAt(k) == RLt(speed_log[k], StopThreshold)

\* C20: the loop exits early at the first step at which the speed is below
\* the stop threshold and at least 50 steps have been run, never with fewer
\* than 50 steps run; a body below the threshold from the 50th step on
\* yields a trajectory of exactly 50 frames.
C20_EarlyExitAtFiftySteps ==
  pc \in {"final", "returned"} =>
    LET n == Len(trajectory_cs2)
    IN  /\ n < num_steps => (n >= 50 /\ BelowAt(n))
        /\ \A k \in 50..(n - 1) : ~BelowAt(k)
        /\ (num_steps >= 50 /\ \A k \in 50..n : BelowAt(k)) => n = 50

(***************************************************************************)
(* SpecRepeat: find_smokes called twice with the same arguments            *)
(***************************************************************************)
RepeatArgs ==
  [target_pos : TargetInputs, throw_type : {"LEFT_CLICK"},
   strategy : Strategies, max_results : {MaxCandidates}]

\* what a candidate's simulate_throw does in these runs: it raises after
\* createMultiBody (the body stays), or lands on the target or 100 units off
RepeatOutcomes(target_pos) ==
  {o \in ThrowOutcomes(target_pos) :
     IF o.raised THEN o.leaked
     ELSE VSubInt(o.final_position, target_pos) \in
            {<<0, 0, 0>>, <<60, 80, 0>>}}

\* lines 61-71, second call: same arguments, the world as the first left it
FindSmokesAgain ==
  /\ sf_pc = "done"
  /\ ~sf_first.valid
  /\ sf_first' = [valid |-> TRUE, args |-> sf_args,
                  bodies_before |-> sf_bodies_before,
                  outcomes |-> outcomes, result |-> sf_result]
  /\ sf_pc' = "searching"
  /\ grid_args' = Dispatch(sf_args)
  /\ sf_bodies_before' = bodies
  /\ throw_calls' = <<>>
  /\ solutions' = <<>>
  /\ sf_result' = <<>>
  /\ outcomes' = <<>>
  /\ cand' = 1
  /\ UNCHANGED <<sf_args, worldVars, callVars, convVars, serverVars,
                 threadVars>>

\* one candidate; the simulation is deterministic, so in a world equal to
\* the one the first call started in the throw ends as it did then
RepeatCandidate(o) ==
  /\ sf_pc = "searching"
  /\ cand <= NumCandidates
  /\ (sf_first.valid /\ bodies = sf_first.bodies_before) =>
       o = sf_first.outcomes[cand]
  /\ GridCandidate(o)

RepeatNext ==
  \/ \E a \in RepeatArgs : FindSmokesBegin(a)
  \/ \E o \in RepeatOutcomes(sf_args.target_pos) : RepeatCandidate(o)
  \/ GridFinish
  \/ FindSmokesAgain

SpecRepeat == Init /\ [][RepeatNext]_vars

\* C13: the second of two find_smokes calls with identical arguments starts
\* in the world the first call started in (the first call left the set of
\* bodies as it found it) and returns the ranked sequence the first returned.
C13_SecondSearchIdentical ==
  (sf_pc = "done" /\ sf_first.valid) =>
    /\ sf_bodies_before = sf_first.bodies_before
    /\ bodies = sf_first.bodies_before
    /\ sf_result = sf_first.result

(***************************************************************************)
(* server.py: the /find_smokes and /health handlers.  The development      *)
(* server runs each request on a thread of its own, so the handlers        *)
(* interleave at the reads and writes of the two module globals.           *)
(***************************************************************************)
\* bodies posted to /find_smokes; the first is not JSON
RequestBodies ==
  {[json |-> FALSE, throw_type |-> "LEFT_CLICK", strategy |-> "GRID_SEARCH",
    max_results |-> 10]}
  \cup
  [json : {TRUE}, throw_type : {"LEFT_CLICK", "UNKNOWN"},
   strategy : {"GRID_SEARCH"}, max_results : {1, 10}]

\* accepted candidates of a sweep, in sweep order
Sweeps ==
  {<<>>, <<[accuracy |-> 100]>>, <<[accuracy |-> 100], [accuracy |-> 0]>>}

\* smoke_finder.py lines 105-106 and 74: what find_smokes returns
FindSmokesResult(accepted, max_results) ==
  SlicePrefix(SortByAccuracy(accepted), max_results)

\* line 39: jsonify({'success': False, 'error': str(e)}), 500
ErrorPayload(e) ==
  [status |-> 500, structured |-> TRUE, success |-> FALSE, error |-> e,
   smokes |-> <<>>]

\* an exception that leaves the handler: the framework's own 500 page
UnhandledError(e) ==
  [status |-> 500, structured |-> FALSE, success |-> FALSE, error |-> e,
   smokes |-> <<>>]

\* line 37: jsonify({'success': True, 'smokes': [...]})
SuccessPayload(smokes) ==
  [status |-> 200, structured |-> TRUE, success |-> TRUE, error |-> "none",
   smokes |-> smokes]

\* a POST /find_smokes arrives
Arrive(r, body) ==
  /\ req_pc[r] = "new"
  /\ req_pc' = [req_pc EXCEPT ![r] = "check"]
  /\ req_body' = [req_body EXCEPT ![r] = body]
  /\ UNCHANGED <<physics_engine, smoke_finder, engines_built, response,
                 health_log, closed>>
  /\ UNCHANGED <<worldVars, callVars, searchVars, convVars, threadVars>>

\* line 28: if physics_engine is None
CheckEngine(r) ==
  /\ req_pc[r] = "check"
  /\ req_pc' = [req_pc EXCEPT ![r] =
                  IF physics_engine = 0 THEN "engine" ELSE "try"]
  /\ UNCHANGED <<physics_engine, smoke_finder, engines_built, req_body,
                 response, health_log, closed>>
  /\ UNCHANGED <<worldVars, callVars, searchVars, convVars, threadVars>>

\* line 29: physics_engine = EnhancedPhysicsEngine(gui=False), outside the
\* try; ok is whether the constructor (p.connect, the map) succeeds
BuildEngine(r, ok) ==
  /\ req_pc[r] = "engine"
  /\ IF ok
     THEN /\ engines_built' = engines_built + 1
          /\ physics_engine' = engines_built + 1
          /\ req_pc' = [req_pc EXCEPT ![r] = "finder"]
          /\ UNCHANGED response
     ELSE /\ response' =
               [response EXCEPT ![r] = UnhandledError("pybullet.error")]
          /\ req_pc' = [req_pc EXCEPT ![r] = "done"]
          /\ UNCHANGED <<physics_engine, engines_built>>
  /\ UNCHANGED <<smoke_finder, req_body, health_log, closed>>
  /\ UNCHANGED <<worldVars, callVars, searchVars, convVars, threadVars>>

\* line 30: smoke_finder = SmokeFinder(physics_engine)
BuildFinder(r) ==
  /\ req_pc[r] = "finder"
  /\ smoke_finder' = physics_engine
  /\ req_pc' = [req_pc EXCEPT ![r] = "try"]
  /\ UNCHANGED <<physics_engine, engines_built, req_body, response,
                 health_log, closed>>
  /\ UNCHANGED <<worldVars, callVars, searchVars, convVars, threadVars>>

\* the engine whose p.connect returned client 0: no PyBullet call of the
\* program passes physicsClientId, so every call goes to that client
DefaultClientEngine == 1

\* lines 31-39: parse the body, run the search with the limit 10, answer;
\* with client 0 disconnected every simulate_throw raises and _grid_search
\* swallows it, so nothing is accepted
TryBlock(r, accepted) ==
  /\ req_pc[r] = "try"
  /\ DefaultClientEngine \in closed => accepted = <<>>
  /\ LET b == req_body[r]
     IN  response' = [response EXCEPT ![r] =
           IF ~b.json THEN ErrorPayload("BadRequest")
           ELSE IF b.throw_type \notin ThrowTypes THEN ErrorPayload("KeyError")
           ELSE IF b.strategy \notin Strategies THEN ErrorPayload("KeyError")
           ELSE IF smoke_finder = 0 THEN ErrorPayload("AttributeError")
           ELSE SuccessPayload(FindSmokesResult(accepted, 10))]
  /\ req_pc' = [req_pc EXCEPT ![r] = "done"]
  /\ UNCHANGED <<physics_engine, smoke_finder, engines_built, req_body,
                 health_log, closed>>
  /\ UNCHANGED <<worldVars, callVars, searchVars, convVars, threadVars>>

\* lines 21-23: GET /health; backend records what the globals were
Health ==
  /\ Len(health_log) < MaxProbes
  /\ health_log' =
       Append(health_log,
              [initialized |-> physics_engine # 0,
               backend |-> (physics_engine # 0 /\ smoke_finder # 0),
               requests_seen |-> \E r \in Requests : req_pc[r] # "new"])
  /\ UNCHANGED <<physics_engine, smoke_finder, engines_built, req_pc,
                 req_body, response, closed>>
  /\ UNCHANGED <<worldVars, callVars, searchVars, convVars, threadVars>>

\* physics_engine.py lines 293-303: an engine no global refers to any more
\* is finalised; __del__ calls cleanup, which disconnects its client
Collect(e) ==
  /\ e \in 1..engines_built
  /\ e \notin closed
  /\ e # physics_engine
  /\ e # smoke_finder
  /\ closed' = closed \cup {e}
  /\ UNCHANGED <<physics_engine, smoke_finder, engines_built, req_pc,
                 req_body, response, health_log>>
  /\ UNCHANGED <<worldVars, callVars, searchVars, convVars, threadVars>>

ServerNext ==
  \/ \E r \in Requests, body \in RequestBodies : Arrive(r, body)
  \/ \E r \in Requests : CheckEngine(r)
  \/ \E r \in Requests, ok \in BOOLEAN : BuildEngine(r, ok)
  \/ \E r \in Requests : BuildFinder(r)
  \/ \E r \in Requests, accepted \in Sweeps : TryBlock(r, accepted)
  \/ Health
  \/ \E e \in 1..MaxRequests : Collect(e)

SpecServer == Init /\ [][ServerNext]_vars

\* C15: every failure while serving /find_smokes, a backend that fails to
\* initialise and a malformed body included, is answered with a structured
\* error payload (success = false and a message), later requests are still
\* served, and an empty solution list is answered as success.
C15_FailuresAreStructured ==
  \A r \in Requests :
    req_pc[r] = "done" =>
      /\ response[r].structured
      /\ response[r].status # 200 =>
           (~response[r].success /\ response[r].error # "none")
      /\ response[r].status = 200 => response[r].success

\* C16: the list returned for a request has at most as many solutions as
\* the request's max_results.
C16_RequestLimitHonoured ==
  \A r \in Requests :
    (req_pc[r] = "done" /\ response[r].success) =>
      Len(response[r].smokes) <= req_body[r].max_results

\* C18: the health probe reports initialized exactly when engine and finder
\* are both constructed, false before the first request, never false again
\* once true; engine and finder are both unset or both set in every state.
C18_HealthMatchesBackend ==
  /\ (physics_engine = 0) <=> (smoke_finder = 0)
  /\ \A i \in 1..Len(health_log) :
       /\ health_log[i].initialized <=> health_log[i].backend
       /\ ~health_log[i].requests_seen => ~health_log[i].initialized
       /\ \A j \in i..Len(health_log) :
            health_log[i].initialized => health_log[j].initialized

\* ceiling of a rational
RCeil(a) == -RFloor(RNeg(a))

\* C21: when no early exit occurs simulate_throw runs exactly
\* ceil(max_time / time_step) steps for every positive max_time, and it
\* never runs more steps than that.
C21_RunsCeilSteps ==
  (pc # "idle" /\ created = 1 /\ RLt(R(0), args.max_time)) =>
    LET bound == RCeil(RDiv(args.max_time, time_step))
    IN  /\ steps_run <= bound
        /\ (pc \in {"final", "returned"} /\ Len(trajectory_cs2) = num_steps) =>
             steps_run = bound

\* 100 game units/s in sim units
BounceThreshold == RMul(R(100), meters_per_unit)

\* the speed before the k-th step: the throw speed for the first step
SpeedBefore(k) ==
  IF k = 1
  THEN RMul(R(get_throw_speed(args.throw_type)), meters_per_unit)
  ELSE speed_log[k - 1]

\* steps at which the speed differs from the previous one by more than the
\* bounce threshold
BounceSteps ==
  {k \in 1..Len(speed_log) :
     RLt(BounceThreshold, RAbs(RSub(speed_log[k], SpeedBefore(k))))}

\* C22: the bounce counter starts at 0 and counts exactly the steps whose
\* speed differs from the previous step's speed (the throw speed for the
\* first step) by more than 100 game units/s in sim units; the count of a
\* growing log never decreases, and the reported bounces is at most the
\* number of steps run.
C22_BouncesCountSpeedJumps ==
  /\ (pc \in {"loop", "final", "returned"} /\ created = 1) =>
       /\ bounces = Cardinality(BounceSteps)
       /\ bounces <= steps_run
       /\ steps_run = 0 => bounces = 0
  /\ pc = "returned" =>
       /\ info.bounces = Cardinality(BounceSteps)
       /\ info.bounces <= steps_run

C22_Witness ==
  /\ pc = "returned"
  /\ info.bounces >= 1
  /\ info.bounces < steps_run

(***************************************************************************)
(* SpecGrid: one grid search over all candidates of the default grid       *)
(***************************************************************************)
\* targets off and on the throw height, the second with negative coordinates
GridTargets == {<<500, 500, 50>>, <<0, -300, 72>>}

GridArgs ==
  [target_pos : GridTargets, throw_type : {"LEFT_CLICK"},
   strategy : {"GRID_SEARCH"}, max_results : {PitchSamples}]

\* simulate_throw raises and leaves no body
RaiseClean ==
  [raised |-> TRUE, leaked |-> FALSE, final_position |-> <<0, 0, 0>>,
   bounces |-> 0, trajectory |-> <<>>]

\* simulate_throw returns with the grenade at the offset off from the target
LandAt(target_pos, off) ==
  [raised |-> FALSE, leaked |-> FALSE,
   final_position |-> [i \in 1..3 |-> target_pos[i] + off[i]],
   bounces |-> 0,
   trajectory |-> <<[i \in 1..3 |-> target_pos[i] + off[i]]>>]

\* what the k-th simulate_throw does: any of failing and missing for the
\* first MaxCandidates calls; later every third call fails, every 97th
\* lands on the target and the others miss by 150 units
FullOutcomes(target_pos, k) ==
  IF k <= MaxCandidates
  THEN {RaiseClean, LandAt(target_pos, <<90, 120, 0>>)}
  ELSE IF k % 3 = 0 THEN {RaiseClean}
  ELSE IF k % 97 = 0 THEN {LandAt(target_pos, <<0, 0, 0>>)}
  ELSE {LandAt(target_pos, <<90, 120, 0>>)}

FullCandidate ==
  \E o \in FullOutcomes(sf_args.target_pos, cand) :
    SweepCandidate(o, FullCandidates)

FullFinish == SweepFinish(FullCandidates)

GridNext ==
  \/ \E a \in GridArgs : FindSmokesBegin(a)
  \/ FullCandidate
  \/ FullFinish

SpecGrid == Init /\ [][GridNext]_vars

\* place of a call in the nested order x outer, y middle, pitch inner over
\* x in tx-500, tx-400, .., tx+400, y in ty-500, .., ty+400 and the 10 evenly
\* spaced pitches from -20 to 60 (0 when the call is none of these)
GridRank(c, t) ==
  LET xs == {i \in 0..9 : c.start_pos[1] = t[1] - 500 + 100 * i}
      ys == {j \in 0..9 : c.start_pos[2] = t[2] - 500 + 100 * j}
      ps == {q \in 0..9 : c.pitch = RAdd(R(-20), RMul(R(q), Rat(60 + 20, 9)))}
  IN  IF xs = {} \/ ys = {} \/ ps = {} THEN 0
      ELSE 100 * (CHOOSE i \in xs : TRUE) + 10 * (CHOOSE j \in ys : TRUE)
             + (CHOOSE q \in ps : TRUE) + 1

\* the k-th call is the k-th triple, thrown from height 72 toward the target
\* with a budget of 2 seconds
GridCallOk(k) ==
  LET c == throw_calls[k]
      t == sf_args.target_pos
  IN  /\ GridRank(c, t) = k
      /\ c.start_pos[3] = 72
      /\ c.yaw = <<"atan2deg", t[2] - c.start_pos[2], t[1] - c.start_pos[1]>>
      /\ c.max_time = R(2)
      /\ c.throw_type = sf_args.throw_type

\* C23: a grid search calls simulate_throw exactly once for each of the
\* 10 x 10 x 10 triples, in nested order and whether or not earlier calls
\* failed, from height 72, with yaw atan2(ty - y, tx - x), the 10 evenly
\* spaced pitches from -20 to 60 and a budget of 2 seconds; the caller's
\* target is not modified.
C23_GridEnumeration ==
  sf_pc \in {"searching", "done"} =>
    /\ Len(throw_calls) = cand - 1
    /\ Len(throw_calls) = Len(outcomes)
    /\ Len(throw_calls) <= 10 * 10 * 10
    /\ grid_args.target_pos = sf_args.target_pos
    /\ Len(throw_calls) >= 1 => GridCallOk(Len(throw_calls))
    /\ sf_pc = "done" =>
         /\ Len(throw_calls) = 10 * 10 * 10
         /\ \A k \in 1..Len(throw_calls) : GridCallOk(k)

C23_Witness ==
  /\ sf_pc = "done"
  /\ Len(throw_calls) = 10 * 10 * 10
  /\ sf_args.target_pos[3] # 72
  /\ outcomes[1].raised
  /\ ~outcomes[2].raised
  /\ throw_calls[1000].start_pos = <<900, 900, 72>>

(***************************************************************************)
(* SpecThreads: simulate_throw calls of concurrently served requests.      *)
(* server.py hands every request to the one engine without a lock and      *)
(* the development server runs each request on its own thread, so the      *)
(* calls interleave between their PyBullet calls.  A body's position and   *)
(* speed are determined by the number of world steps it has been through,  *)
(* which stands for them here.                                             *)
(***************************************************************************)
SetThread(t, rec) ==
  /\ threads' = [threads EXCEPT ![t] = rec]
  /\ UNCHANGED <<worldVars, callVars, searchVars, convVars, serverVars>>

\* physics_engine.py lines 162-181: createMultiBody and the body's setup
ThrowCreate(t) ==
  /\ threads[t].pc = "idle"
  /\ sim_bodies' = [b \in DOMAIN sim_bodies \cup {sim_next_id} |->
                      IF b = sim_next_id THEN 0 ELSE sim_bodies[b]]
  /\ sim_next_id' = sim_next_id + 1
  /\ SetThread(t, [NoThread EXCEPT !.pc = "loop", !.body = sim_next_id])
  /\ UNCHANGED sim_foreign

\* line 191: p.stepSimulation() advances every dynamic body of the world
ThrowStep(t) ==
  /\ threads[t].pc = "loop"
  /\ sim_bodies' = [b \in DOMAIN sim_bodies |-> sim_bodies[b] + 1]
  /\ sim_foreign' = sim_foreign \cup (DOMAIN sim_bodies \ {threads[t].body})
  /\ SetThread(t, [threads[t] EXCEPT !.pc = "pos"])
  /\ UNCHANGED sim_next_id

\* lines 194-199: query the position, append the frame
ThrowSamplePos(t) ==
  /\ threads[t].pc = "pos"
  /\ SetThread(t, [threads[t] EXCEPT !.pc = "vel",
                                     !.frames = @ + 1,
                                     !.last_frame = sim_bodies[threads[t].body]])
  /\ UNCHANGED <<sim_bodies, sim_next_id, sim_foreign>>

\* lines 202-213: query the velocity, next iteration or leave the loop
ThrowSampleVel(t) ==
  /\ threads[t].pc = "vel"
  /\ SetThread(t, [threads[t] EXCEPT
                     !.pc = IF threads[t].iter + 1 >= ThreadSteps
                            THEN "final_pos" ELSE "loop",
                     !.iter = @ + 1,
                     !.last_speed = sim_bodies[threads[t].body]])
  /\ UNCHANGED <<sim_bodies, sim_next_id, sim_foreign>>

\* lines 216-217: the final position query
ThrowFinalPos(t) ==
  /\ threads[t].pc = "final_pos"
  /\ SetThread(t, [threads[t] EXCEPT
                     !.pc = "final_vel",
                     !.final_position = sim_bodies[threads[t].body]])
  /\ UNCHANGED <<sim_bodies, sim_next_id, sim_foreign>>

\* lines 219-220: the final velocity query
ThrowFinalVel(t) ==
  /\ threads[t].pc = "final_vel"
  /\ SetThread(t, [threads[t] EXCEPT
                     !.pc = "remove",
                     !.final_velocity = sim_bodies[threads[t].body]])
  /\ UNCHANGED <<sim_bodies, sim_next_id, sim_foreign>>

\* lines 223-234: removeBody, build info, return
ThrowRemove(t) ==
  /\ threads[t].pc = "remove"
  /\ sim_bodies' = [b \in DOMAIN sim_bodies \ {threads[t].body} |->
                      sim_bodies[b]]
  /\ SetThread(t, [threads[t] EXCEPT !.pc = "returned"])
  /\ UNCHANGED <<sim_next_id, sim_foreign>>

ThreadsNext ==
  \E t \in Threads :
    \/ ThrowCreate(t)
    \/ ThrowStep(t)
    \/ ThrowSamplePos(t)
    \/ ThrowSampleVel(t)
    \/ ThrowFinalPos(t)
    \/ ThrowFinalVel(t)
    \/ ThrowRemove(t)

SpecThreads == Init /\ [][ThreadsNext]_vars

\* C25: under any interleaving of concurrently served requests at most one
\* dynamic projectile body exists in the world, and every world step taken
\* while a body exists is taken by the call that created it.
C25_OneProjectileOwnSteps ==
  /\ Cardinality(DOMAIN sim_bodies) <= 1
  /\ sim_foreign = {}

\* C24: in every simulate_throw that ran at least one step, final_position
\* is the last frame of the trajectory (no step between the last sample and
\* the final query) and final_velocity is the speed observed at that step.
C24_FinalIsLastFrame ==
  \A t \in Threads :
    (threads[t].pc = "returned" /\ threads[t].frames >= 1) =>
      /\ threads[t].final_position = threads[t].last_frame
      /\ threads[t].final_velocity = threads[t].last_speed

\* C26: the backend is constructed at most once per process: the engine
\* constructor runs once under any interleaving of requests, no second
\* engine replaces the first, and no cleanup of a discarded engine closes
\* the physics connection in use while requests are served.
C26_BackendBuiltOnce ==
  /\ engines_built <= 1
  /\ physics_engine \in {0, DefaultClientEngine}
  /\ DefaultClientEngine \notin closed

====
